---- MODULE Spec2Model ----
(***************************************************************************)
(* Model of the analytics proxy (netlify/functions/api.ts): the request    *)
(* validation, the time-range resolution, the upstream call and the        *)
(* response normalisation of the default handler.                          *)
(*                                                                         *)
(* JavaScript values are tagged records; an HTTP body is a sequence of     *)
(* JSON tokens, parsed by JsonParse and produced by JsonStringify.         *)
(* Millisecond quantities are pairs [hi, lo] in base 10^6, because the     *)
(* offsets of the handler exceed 2^31.                                     *)
(***************************************************************************)
EXTENDS Integers, Sequences, FiniteSets, TLC

\* Largest number of records in a `data` array the upstream sends.
MaxRecords == 2

(***************************************************************************)
(* JavaScript values                                                       *)
(***************************************************************************)
Undefined == [t |-> "undefined"]
Null == [t |-> "null"]
Bool(b) == [t |-> "bool", b |-> b]
Num(n) == [t |-> "num", n |-> n]
Str(s) == [t |-> "str", s |-> s]
Arr(a) == [t |-> "arr", a |-> a]
Obj(o) == [t |-> "obj", o |-> o]
Prop(k, v) == [k |-> k, v |-> v]

\* ToBoolean: undefined, null, false, 0 and "" are falsy.
Truthy(v) ==
  CASE v.t = "undefined" -> FALSE
    [] v.t = "null" -> FALSE
    [] v.t = "bool" -> v.b
    [] v.t = "num" -> v.n # 0
    [] v.t = "str" -> v.s # ""
    [] v.t = "big" -> v.hi # 0 \/ v.lo # 0
    [] OTHER -> TRUE

\* typeof
TypeOf(v) ==
  CASE v.t = "undefined" -> "undefined"
    [] v.t = "bool" -> "boolean"
    [] v.t \in {"num", "big"} -> "number"
    [] v.t = "str" -> "string"
    [] OTHER -> "object"

IsArray(v) == v.t = "arr"

\* === on the values the handler compares (primitives).
StrictEq(a, b) ==
  /\ a.t = b.t
  /\ CASE a.t = "str" -> a.s = b.s
       [] a.t = "num" -> a.n = b.n
       [] a.t = "bool" -> a.b = b.b
       [] a.t \in {"undefined", "null"} -> TRUE
       [] OTHER -> FALSE

HasKey(o, k) == \E i \in 1..Len(o) : o[i].k = k
Lookup(o, k) == o[CHOOSE i \in 1..Len(o) : o[i].k = k].v

\* v.k cannot be read of undefined or null (TypeError).
GetThrows(v) == v.t \in {"undefined", "null"}

\* v.k for the property names the handler reads.
Get(v, k) ==
  CASE v.t = "obj" -> IF HasKey(v.o, k) THEN Lookup(v.o, k) ELSE Undefined
    [] v.t = "arr" /\ k = "length" -> Num(Len(v.a))
    [] OTHER -> Undefined

IndexKeys == <<"0", "1", "2", "3">>
IsIndexKey(k) == \E i \in 1..Len(IndexKeys) : IndexKeys[i] = k
IndexOf(k) == CHOOSE i \in 1..Len(IndexKeys) : IndexKeys[i] = k

\* Position at which a new own property is enumerated: integer keys first,
\* in ascending order, then the other keys in insertion order.
InsertPos(o, k) ==
  IF IsIndexKey(k)
    THEN Cardinality({i \in 1..Len(o) :
                        IsIndexKey(o[i].k) /\ IndexOf(o[i].k) < IndexOf(k)}) + 1
    ELSE Len(o) + 1

\* o[k] = v on an object literal: an existing key keeps its place.
ObjSet(o, k, v) ==
  IF HasKey(o, k)
    THEN [i \in 1..Len(o) |-> IF o[i].k = k THEN Prop(k, v) ELSE o[i]]
    ELSE LET p == InsertPos(o, k)
         IN SubSeq(o, 1, p - 1) \o <<Prop(k, v)>> \o SubSeq(o, p, Len(o))

\* Object.keys(v).length for an object or an array.
KeyCount(v) ==
  CASE v.t = "obj" -> Len(v.o)
    [] v.t = "arr" -> Len(v.a)
    [] OTHER -> 0

(***************************************************************************)
(* JSON text: a sequence of tokens                                         *)
(***************************************************************************)
P(c) == [tk |-> c]
TStr(s) == [tk |-> "str", s |-> s]
TNum(n) == [tk |-> "num", n |-> n]
Ws == P(" ")

RECURSIVE SkipWs(_)
SkipWs(toks) ==
  IF toks # <<>> /\ Head(toks).tk = " " THEN SkipWs(Tail(toks)) ELSE toks

Fail == [ok |-> FALSE, val |-> Undefined, rest |-> <<>>]
Ok(v, rest) == [ok |-> TRUE, val |-> v, rest |-> rest]

RECURSIVE ParseValue(_)
RECURSIVE ParseElements(_, _)
RECURSIVE ParseMembers(_, _)

ParseElements(toks, acc) ==
  LET r == ParseValue(SkipWs(toks))
      after == SkipWs(r.rest)
  IN IF ~r.ok \/ after = <<>> THEN Fail
     ELSE IF Head(after).tk = "," THEN ParseElements(Tail(after), Append(acc, r.val))
     ELSE IF Head(after).tk = "]" THEN Ok(Arr(Append(acc, r.val)), Tail(after))
     ELSE Fail

ParseMembers(toks, acc) ==
  LET t1 == SkipWs(toks)
      t2 == IF t1 = <<>> THEN <<>> ELSE SkipWs(Tail(t1))
      r == IF t2 = <<>> THEN Fail ELSE ParseValue(SkipWs(Tail(t2)))
      after == SkipWs(r.rest)
  IN IF t1 = <<>> \/ t2 = <<>> THEN Fail
     ELSE IF Head(t1).tk # "str" \/ Head(t2).tk # ":" THEN Fail
     ELSE IF ~r.ok \/ after = <<>> THEN Fail
     ELSE IF Head(after).tk = ","
       THEN ParseMembers(Tail(after), ObjSet(acc, Head(t1).s, r.val))
     ELSE IF Head(after).tk = "}"
       THEN Ok(Obj(ObjSet(acc, Head(t1).s, r.val)), Tail(after))
     ELSE Fail

ParseValue(toks) ==
  IF toks = <<>> THEN Fail
  ELSE LET h == Head(toks)
           rest == SkipWs(Tail(toks))
       IN CASE h.tk = "null" -> Ok(Null, Tail(toks))
            [] h.tk = "true" -> Ok(Bool(TRUE), Tail(toks))
            [] h.tk = "false" -> Ok(Bool(FALSE), Tail(toks))
            [] h.tk = "num" -> Ok(Num(h.n), Tail(toks))
            [] h.tk = "str" -> Ok(Str(h.s), Tail(toks))
            [] h.tk = "[" ->
                 IF rest # <<>> /\ Head(rest).tk = "]"
                   THEN Ok(Arr(<<>>), Tail(rest))
                   ELSE ParseElements(Tail(toks), <<>>)
            [] h.tk = "{" ->
                 IF rest # <<>> /\ Head(rest).tk = "}"
                   THEN Ok(Obj(<<>>), Tail(rest))
                   ELSE ParseMembers(Tail(toks), <<>>)
            [] OTHER -> Fail

\* JSON.parse of a whole text: one value, nothing but white space around it.
JsonParse(text) ==
  LET r == ParseValue(SkipWs(text))
  IN IF r.ok /\ SkipWs(r.rest) = <<>> THEN Ok(r.val, <<>>) ELSE Fail

RECURSIVE JsonStringify(_)
RECURSIVE StringifyElements(_)
RECURSIVE StringifyMembers(_, _)

\* An undefined array element is written as null.
StringifyElements(a) ==
  IF a = <<>> THEN <<>>
  ELSE (IF Head(a).t = "undefined" THEN <<P("null")>> ELSE JsonStringify(Head(a)))
       \o (IF Tail(a) = <<>> THEN <<>> ELSE <<P(",")>> \o StringifyElements(Tail(a)))

\* A property whose value is undefined is left out.
StringifyMembers(o, first) ==
  IF o = <<>> THEN <<>>
  ELSE IF Head(o).v.t = "undefined" THEN StringifyMembers(Tail(o), first)
  ELSE (IF first THEN <<>> ELSE <<P(",")>>)
       \o <<TStr(Head(o).k), P(":")>> \o JsonStringify(Head(o).v)
       \o StringifyMembers(Tail(o), FALSE)

JsonStringify(v) ==
  CASE v.t = "null" -> <<P("null")>>
    [] v.t = "bool" -> <<P(IF v.b THEN "true" ELSE "false")>>
    [] v.t = "num" -> <<TNum(v.n)>>
    [] v.t = "str" -> <<TStr(v.s)>>
    [] v.t = "arr" -> <<P("[")>> \o StringifyElements(v.a) \o <<P("]")>>
    [] v.t = "obj" -> <<P("{")>> \o StringifyMembers(v.o, TRUE) \o <<P("}")>>
    [] OTHER -> <<>>

(***************************************************************************)
(* Millisecond timestamps: hi * 10^6 + lo with 0 <= lo < 10^6              *)
(***************************************************************************)
Base == 1000 * 1000
Big(hi, lo) == [t |-> "big", hi |-> hi, lo |-> lo]

\* n * m for a small n and 0 <= m < 2^31, without leaving 32 bits.
BigTimes(n, m) ==
  LET low == n * (m % Base)
  IN Big(n * (m \div Base) + (low \div Base), low % Base)

BigSub(a, b) ==
  IF a.lo >= b.lo
    THEN Big(a.hi - b.hi, a.lo - b.lo)
    ELSE Big(a.hi - b.hi - 1, a.lo + Base - b.lo)

BigLess(a, b) == a.hi < b.hi \/ (a.hi = b.hi /\ a.lo < b.lo)

\* 24 * 60 * 60 * 1000
DayMs == 24 * 60 * 60 * 1000

(***************************************************************************)
(* Module scope of api.ts                                                  *)
(***************************************************************************)
BASE_URL == "https://analytics.services.netlify.com/v2"

TimeRanges == <<Str("7d"), Str("30d"), Str("3m"), Str("1y")>>

\* Array.prototype.includes on the list of recognised symbols.
Includes(list, v) == \E i \in 1..Len(list) : StrictEq(list[i], v)

\* Intl.DateTimeFormat().resolvedOptions().timeZone of the function's host.
ServerTimeZone == "UTC"

(***************************************************************************)
(* Response objects                                                        *)
(***************************************************************************)
JsonHeaders == <<Prop("Content-Type", "application/json")>>

\* Statuses for which the Response constructor refuses a body.
NullBodyStatus == {101, 103, 204, 205, 304}

\* new Response(body, {status, headers}) with a non-null body: RangeError
\* outside 200..599, TypeError for a null-body status.
ResponseThrows(status) == status < 200 \/ status > 599 \/ status \in NullBodyStatus

Response(body, status, headers) ==
  [status |-> status, headers |-> headers, body |-> body]

NoResponse == [status |-> 0, headers |-> <<>>, body |-> <<>>]

ConfigErrorResponse ==
  Response(JsonStringify(Obj(<<Prop("error", Str("Internal server configuration error."))>>)),
           500, JsonHeaders)

MethodNotAllowedResponse ==
  Response(JsonStringify(Obj(<<Prop("error", Str("Method Not Allowed"))>>)),
           405, JsonHeaders \o <<Prop("Allow", "POST")>>)

BadRequestResponse(message) ==
  Response(JsonStringify(Obj(<<Prop("error", Str("Invalid request body: " \o message))>>)),
           400, JsonHeaders)

\* Variant: the caught error's message returned to the caller.
InternalErrorResponseLeaking(error) ==
  Response(JsonStringify(Obj(<<Prop("error", Str(error))>>)), 500, JsonHeaders)

\* The catch around the upstream call: the error is logged, not returned.
InternalErrorResponse(error) ==
  Response(JsonStringify(Obj(<<Prop("error",
             Str("Internal server error while contacting Netlify API."))>>)),
           500, JsonHeaders)

(***************************************************************************)
(* Request body validation (the first try block)                           *)
(***************************************************************************)
JsonSyntaxMessage == "Unexpected token in JSON"
NullBodyMessage == "Cannot read properties of null (reading 'endpoint')"

Rejected(message) ==
  [ok |-> FALSE, message |-> message,
   endpoint |-> Undefined, params |-> Undefined, timeRange |-> Undefined]

\* Variant: the default is '7d'.
TimeRangeOrSevenDays(v) == IF Truthy(v) THEN v ELSE Str("7d")

\* timeRange = body.timeRange || '30d'
TimeRangeOrDefault(v) == IF Truthy(v) THEN v ELSE Str("30d")

ValidateBody(text) ==
  LET parsed == JsonParse(text)
      body == parsed.val
      endpoint == Get(body, "endpoint")
      params == Get(body, "params")
      timeRange == TimeRangeOrDefault(Get(body, "timeRange"))
  IN IF ~parsed.ok THEN Rejected(JsonSyntaxMessage)
     ELSE IF GetThrows(body) THEN Rejected(NullBodyMessage)
     ELSE IF ~Truthy(endpoint) THEN Rejected("Missing 'endpoint' in request body")
     ELSE IF TypeOf(endpoint) # "string" THEN Rejected("'endpoint' must be a string")
     ELSE IF Truthy(timeRange) /\ ~Includes(TimeRanges, timeRange)
       THEN Rejected("Invalid 'timeRange' value")
     ELSE [ok |-> TRUE, message |-> "",
           endpoint |-> endpoint, params |-> params, timeRange |-> timeRange]

(***************************************************************************)
(* Time range resolution (the switch)                                      *)
(***************************************************************************)
\* Variant: a year of 360 days.
FromTimestampShortYear(timeRange, now) ==
  CASE StrictEq(timeRange, Str("7d")) -> BigSub(now, BigTimes(7, DayMs))
    [] StrictEq(timeRange, Str("3m")) -> BigSub(now, BigTimes(90, DayMs))
    [] StrictEq(timeRange, Str("1y")) -> BigSub(now, BigTimes(360, DayMs))
    [] OTHER -> BigSub(now, BigTimes(30, DayMs))

FromTimestamp(timeRange, now) ==
  CASE StrictEq(timeRange, Str("7d")) -> BigSub(now, BigTimes(7, DayMs))
    [] StrictEq(timeRange, Str("3m")) -> BigSub(now, BigTimes(90, DayMs))
    [] StrictEq(timeRange, Str("1y")) -> BigSub(now, BigTimes(365, DayMs))
    [] OTHER -> BigSub(now, BigTimes(30, DayMs))

(***************************************************************************)
(* Query parameters                                                        *)
(***************************************************************************)
\* timezoneHeader || Intl...timeZone; headers.get gives null when absent.
Timezone(header) == IF Truthy(header) THEN header ELSE Str(ServerTimeZone)

\* Own enumerable properties copied by ...params.  A string spreads into
\* its characters; the requests of this model carry strings of length <= 1.
SpreadProps(v) ==
  CASE v.t = "obj" -> v.o
    [] v.t = "arr" -> [i \in 1..Len(v.a) |-> Prop(IndexKeys[i], v.a[i])]
    [] v.t = "str" -> IF v.s = "" THEN <<>> ELSE <<Prop("0", v)>>
    [] OTHER -> <<>>

RECURSIVE Assign(_, _)
Assign(o, props) ==
  IF props = <<>> THEN o
  ELSE Assign(ObjSet(o, Head(props).k, Head(props).v), Tail(props))

\* Variant: params spread before the reserved keys, which then win.
QueryParamsReservedLast(from, to, timezone, params) ==
  Assign(SpreadProps(params),
         <<Prop("from", from), Prop("to", to), Prop("timezone", timezone)>>)

QueryParams(from, to, timezone, params) ==
  Assign(<<Prop("from", from), Prop("to", to), Prop("timezone", timezone)>>,
         SpreadProps(params))

(***************************************************************************)
(* The upstream call                                                       *)
(***************************************************************************)
\* String(value) for the values a query carries.
RECURSIVE Pad(_, _)
Pad(s, width) == IF Len(s) >= width THEN s ELSE Pad("0" \o s, width)

RECURSIVE ToStr(_)
RECURSIVE JoinElements(_)
JoinElements(a) ==
  IF a = <<>> THEN ""
  ELSE (IF Head(a).t \in {"undefined", "null"} THEN "" ELSE ToStr(Head(a)))
       \o (IF Tail(a) = <<>> THEN "" ELSE "," \o JoinElements(Tail(a)))

ToStr(v) ==
  CASE v.t = "str" -> v.s
    [] v.t = "num" -> ToString(v.n)
    [] v.t = "big" -> IF v.hi = 0 THEN ToString(v.lo)
                      ELSE IF v.hi > 0 THEN ToString(v.hi) \o Pad(ToString(v.lo), 6)
                      ELSE IF v.lo = 0 THEN ToString(v.hi) \o "000000"
                      ELSE IF v.hi = -1 THEN "-" \o ToString(Base - v.lo)
                      ELSE ToString(v.hi + 1) \o Pad(ToString(Base - v.lo), 6)
    [] v.t = "bool" -> IF v.b THEN "true" ELSE "false"
    [] v.t = "null" -> "null"
    [] v.t = "undefined" -> "undefined"
    [] v.t = "arr" -> JoinElements(v.a)
    [] OTHER -> "[object Object]"

\* encodeURIComponent on the strings a query of this model carries: the
\* ones with a reserved character are listed, the others are unreserved.
EncodeURIComponent(s) ==
  CASE s = "Europe/Rome" -> "Europe%2FRome"
    [] s = "Mars/Base" -> "Mars%2FBase"
    [] s = "[object Object]" -> "%5Bobject%20Object%5D"
    [] s = "a&b=c" -> "a%26b%3Dc"
    [] OTHER -> s

QueryString(queryParams) ==
  [i \in 1..Len(queryParams) |->
     [key |-> EncodeURIComponent(queryParams[i].k),
      value |-> EncodeURIComponent(ToStr(queryParams[i].v))]]

\* fetch(url, {headers: {Authorization}})
UpstreamRequest(siteId, endpoint, queryString, apiKey) ==
  [base |-> BASE_URL, site |-> siteId.s, endpoint |-> endpoint.s,
   query |-> queryString, authorization |-> "Bearer " \o apiKey.s]

\* What the awaited fetch settles with.
NetworkError(detail) ==
  [kind |-> "error", detail |-> detail, status |-> 0, statusText |-> "", body |-> <<>>]
HttpReply(status, statusText, body) ==
  [kind |-> "http", detail |-> "", status |-> status, statusText |-> statusText,
   body |-> body]
NoReply == [kind |-> "none", detail |-> "", status |-> 0, statusText |-> "", body |-> <<>>]

\* netlifyResponse.ok
IsOk(reply) == reply.status >= 200 /\ reply.status <= 299

\* netlifyResponse.text(): the body as it was sent.
Raw(s) == [tk |-> "raw", s |-> s]
RECURSIVE TextOf(_)
TextOf(toks) ==
  IF toks = <<>> THEN ""
  ELSE LET h == Head(toks)
       IN (CASE h.tk = "str" -> "\"" \o h.s \o "\""
             [] h.tk = "num" -> ToString(h.n)
             [] h.tk = "raw" -> h.s
             [] OTHER -> h.tk) \o TextOf(Tail(toks))

ResponseInitMessage == "Response with null body status cannot have body"
NullDataMessage == "Cannot read properties of null (reading 'data')"

\* Variant: endpoint.startsWith('/bandwidth').
IsBandwidthEndpointPrefix(endpoint) ==
  endpoint.t = "str" /\ endpoint.s \in {"/bandwidth", "/bandwidth/"}

\* endpoint === '/bandwidth'
IsBandwidthEndpoint(endpoint) == StrictEq(endpoint, Str("/bandwidth"))

\* The non-2xx branch: the upstream status is forwarded; the construction of
\* the Response throws when the status admits no body.
UpstreamErrorResponse(reply) ==
  IF ResponseThrows(reply.status) THEN InternalErrorResponse(ResponseInitMessage)
  ELSE Response(JsonStringify(Obj(<<
           Prop("error", Str("Netlify API Error: " \o reply.statusText)),
           Prop("status", Num(reply.status)),
           Prop("details", Str(TextOf(reply.body)))>>)),
         reply.status, JsonHeaders)

\* jsonData.start && jsonData.end && jsonData.siteBandwidth !== undefined
IsBandwidthRecord(jsonData) ==
  /\ Truthy(Get(jsonData, "start"))
  /\ Truthy(Get(jsonData, "end"))
  /\ Get(jsonData, "siteBandwidth").t # "undefined"

\* The normalisation of a parsed 2xx body.
Normalize(endpoint, jsonData) ==
  IF IsBandwidthEndpoint(endpoint)
    THEN IF GetThrows(jsonData) THEN InternalErrorResponse(NullDataMessage)
         ELSE IF ~Truthy(Get(jsonData, "data")) \/ ~IsArray(Get(jsonData, "data"))
           THEN IF IsBandwidthRecord(jsonData)
                  THEN Response(JsonStringify(Obj(<<Prop("data", Arr(<<jsonData>>))>>)),
                                200, JsonHeaders)
                ELSE IF TypeOf(jsonData) = "object" /\ KeyCount(jsonData) = 0
                  THEN Response(JsonStringify(Obj(<<Prop("data", Arr(<<>>))>>)),
                                200, JsonHeaders)
                ELSE Response(JsonStringify(Obj(<<Prop("data", Arr(<<>>))>>)),
                              200, JsonHeaders)
         ELSE Response(JsonStringify(jsonData), 200, JsonHeaders)
    ELSE Response(JsonStringify(jsonData), 200, JsonHeaders)

\* The second try block, from the point where fetch has settled.
UpstreamResult(endpoint, reply) ==
  IF reply.kind = "error" THEN InternalErrorResponse(reply.detail)
  ELSE IF ~IsOk(reply) THEN UpstreamErrorResponse(reply)
  ELSE IF ~JsonParse(reply.body).ok THEN InternalErrorResponse(JsonSyntaxMessage)
  ELSE Normalize(endpoint, JsonParse(reply.body).val)

(***************************************************************************)
(* The environment: configuration, requests, clock and upstream replies    *)
(***************************************************************************)
\* Netlify.env.get gives undefined for a variable that is not set.
Credentials == <<Undefined, Str(""), Str("key-A"), Str("key-B")>>
SiteIds == <<Undefined, Str("site-1")>>

Methods == <<"POST", "GET", "PUT">>

\* The X-Client-Timezone header; headers.get gives null when it is absent.
TimezoneHeaders == <<Null, Str("Europe/Rome")>>

EndpointFields ==
  <<Undefined, Null, Str(""), Num(5), Obj(<<>>),
    Str("/pageviews"), Str("/bandwidth"), Str("/bandwidth/"), Str("/ranking/sources")>>

TimeRangeFields ==
  <<Undefined, Str("7d"), Str("30d"), Str("3m"), Str("1y"),
    Str("bogus"), Str(""), Num(0), Bool(FALSE), Null,
    Num(5), Bool(TRUE), Arr(<<Str("7d")>>)>>

ParamsFields ==
  <<Undefined, Obj(<<Prop("limit", Num(10))>>),
    Obj(<<Prop("from", Num(1)), Prop("to", Num(2))>>),
    Obj(<<Prop("timezone", Str("Mars/Base")), Prop("q", Str("a&b=c"))>>),
    Arr(<<Num(7)>>), Str("z"), Null>>

\* The body a caller builds as the client does:
\* JSON.stringify({endpoint, params, timeRange}).
RequestBody(e, p, tr) ==
  JsonStringify(Obj(<<Prop("endpoint", e), Prop("params", p), Prop("timeRange", tr)>>))

\* Bodies that are not such an object.
OtherBodies ==
  << <<>>, <<P("{")>>, <<Raw("endpoint=/pageviews")>>,
     <<P("null")>>, <<TNum(5)>>, <<TStr("/pageviews")>>, <<P("["), P("]")>>,
     <<Ws, P("{"), Ws, TStr("endpoint"), Ws, P(":"), TStr("/bandwidth"), P("}"), Ws>> >>

\* Date.now() in milliseconds: two instants of November 2026 and one of
\* a host whose clock was never set (January 1970).
Nows == <<Big(1793574, 123), Big(1793574, 900000), Big(1000, 0)>>

ErrorDetails == <<"connect ECONNREFUSED", "fetch failed: Bearer key-A">>

StatusText(status) ==
  CASE status = 200 -> "OK"
    [] status = 204 -> "No Content"
    [] status = 304 -> "Not Modified"
    [] status = 401 -> "Unauthorized"
    [] status = 404 -> "Not Found"
    [] status = 500 -> "Internal Server Error"
    [] OTHER -> ""

ErrorStatuses == <<304, 401, 404, 500>>

ErrorBodies ==
  << <<>>, <<Raw("Not Found")>>,
     JsonStringify(Obj(<<Prop("message", Str("denied"))>>)) >>

BandwidthRecord(start, end, site) ==
  Obj(<<Prop("start", start), Prop("end", end), Prop("siteBandwidth", site),
        Prop("accountBandwidth", Num(9))>>)

\* Envelopes of 0..MaxRecords bandwidth records.
DataEnvelopes ==
  [n \in 1..(MaxRecords + 1) |->
     Obj(<<Prop("data", Arr([i \in 1..(n - 1) |->
                               BandwidthRecord(Num(i), Num(i + 1), Num(5))]))>>)]

\* Parsed forms of the 2xx bodies the upstream sends.
OkValues ==
  DataEnvelopes \o
  <<Obj(<<Prop("data", Arr(<<Arr(<<Num(1000), Num(3)>>), Arr(<<Num(2000), Num(4)>>)>>))>>),
    Obj(<<Prop("data", Arr(<<Obj(<<Prop("resource", Str("(direct)")), Prop("count", Num(3))>>)>>)),
          Prop("total", Num(3))>>),
    Obj(<<>>),
    BandwidthRecord(Num(1), Num(2), Num(5)),
    BandwidthRecord(Num(0), Num(2), Num(5)),
    BandwidthRecord(Num(1), Num(0), Num(5)),
    BandwidthRecord(Num(1), Num(2), Num(0)),
    BandwidthRecord(Num(1), Num(2), Null),
    Obj(<<Prop("start", Num(1)), Prop("end", Num(2))>>),
    Obj(<<Prop("data", Null)>>),
    Obj(<<Prop("data", Num(5)), Prop("start", Num(1)), Prop("end", Num(2)),
          Prop("siteBandwidth", Num(5))>>),
    Obj(<<Prop("data", Obj(<<>>))>>),
    Obj(<<Prop("message", Str("ok"))>>),
    Null, Num(5), Num(0), Str("text"), Bool(TRUE), Arr(<<>>), Arr(<<Num(1)>>)>>

\* 2xx bodies that are not the canonical text of a value.
OtherOkBodies ==
  << <<>>, <<Raw("<html>")>>, <<P("{"), TStr("data"), P(":")>>,
     <<P("{"), Ws, P("}"), Ws>> >>

(***************************************************************************)
(* State                                                                   *)
(***************************************************************************)
VARIABLES
  NETLIFY_API_KEY,  \* module constant read at load
  SITE_ID,          \* module constant read at load
  pc,               \* "idle", "fetching" (awaiting fetch) or "done"
  req,              \* the Request being handled
  now,              \* Date.now() of this invocation
  endpoint,         \* locals of the handler
  params,
  timeRange,
  fromTimestamp,
  queryParams,
  fetched,          \* upstream requests issued by this invocation
  reply,            \* what the fetch settled with
  response,         \* the Response the handler returned
  cpc,              \* fetchNetlifyData: "idle", "awaiting" (its fetch) or "resolved"
  call,             \* its arguments
  posted,           \* the requests it sent to the proxy
  answer,           \* what its fetch settled with
  result,           \* the value its promise settled with
  toasts,           \* the notifications shown, oldest first
  xpc,              \* exportToCsv: "idle", "returned" or "threw"
  exporting,        \* its arguments and the locale it runs in
  downloads,        \* the downloads it started
  mounted,          \* the Analytics page is rendered
  selected,         \* its timeRange state
  cache             \* the query cache: one entry per query key

clientVars == <<cpc, call, posted, answer, result, toasts>>

exportVars == <<xpc, exporting, downloads>>

uiVars == <<mounted, selected, cache>>

browserVars == <<clientVars, exportVars, uiVars>>

vars == <<NETLIFY_API_KEY, SITE_ID, pc, req, now, endpoint, params, timeRange,
          fromTimestamp, queryParams, fetched, reply, response, browserVars>>

NoRequest == [method |-> "", body |-> <<>>, timezoneHeader |-> Null]

Locals == <<now, endpoint, params, timeRange, fromTimestamp, queryParams>>

NoCall == [endpoint |-> "", params |-> Undefined, timeRange |-> Undefined]

Pending == [state |-> "pending", value |-> Undefined]

NoAnswer == [reply |-> NoReply, stream |-> FALSE]

\* No call of the client is under way and nothing was notified.
ClientIdle ==
  /\ cpc = "idle"
  /\ call = NoCall
  /\ posted = <<>>
  /\ answer = NoAnswer
  /\ result = Pending
  /\ toasts = <<>>

NoExport == [data |-> Undefined, filename |-> "", locale |-> ""]

\* exportToCsv is not running and nothing was downloaded.
ExportIdle ==
  /\ xpc = "idle"
  /\ exporting = NoExport
  /\ downloads = <<>>

MaxMetrics == 1

\* The first members of the seven query keys of the page.
Metrics ==
  SubSeq(<<"pageViews", "visitors", "countries", "sources", "pages", "bandwidth",
           "notFound">>, 1, MaxMetrics)

\* timeRangeOptions
TimeRangeOptions == <<"7d", "30d", "3m", "1y">>

\* Variant: the time range is left out of the key.
QueryKeyMetricOnly(metric, range) == <<metric>>

\* queryKey: [metric, timeRange]
QueryKey(metric, range) == <<metric, range>>

QueryKeys ==
  {QueryKey(Metrics[m], TimeRangeOptions[r]) :
     m \in 1..Len(Metrics), r \in 1..Len(TimeRangeOptions)}

NoData == [metric |-> "", timeRange |-> ""]

\* A query nobody has observed yet.
NoQuery == [status |-> "none", timeRange |-> "", data |-> NoData, late |-> FALSE]

\* The page is not rendered: useState('30d') and an empty query cache.
UiIdle ==
  /\ mounted = FALSE
  /\ selected = "30d"
  /\ cache = [k \in QueryKeys |-> NoQuery]

BrowserIdle == ClientIdle /\ ExportIdle /\ UiIdle

Init ==
  /\ \E i \in 1..Len(Credentials) : NETLIFY_API_KEY = Credentials[i]
  /\ \E i \in 1..Len(SiteIds) : SITE_ID = SiteIds[i]
  /\ pc = "idle"
  /\ req = NoRequest
  /\ now = Undefined
  /\ endpoint = Undefined
  /\ params = Undefined
  /\ timeRange = Undefined
  /\ fromTimestamp = Undefined
  /\ queryParams = <<>>
  /\ fetched = <<>>
  /\ reply = NoReply
  /\ response = NoResponse
  /\ BrowserIdle

\* Variant: the two tests joined by && instead of ||.
ConfigMissingBoth(apiKey, siteId) == ~Truthy(apiKey) /\ ~Truthy(siteId)

\* !NETLIFY_API_KEY || !SITE_ID
ConfigMissing(apiKey, siteId) == ~Truthy(apiKey) \/ ~Truthy(siteId)

\* Variant: GET let through as well.
MethodAllowedOrGet(method) == method \in {"POST", "GET"}

\* req.method !== 'POST' is false
MethodAllowed(method) == method = "POST"

\* The handler returns without calling upstream.
Respond(r) ==
  /\ response' = r
  /\ pc' = "done"
  /\ UNCHANGED <<Locals, fetched, reply>>

\* The handler has validated the request: it reads the clock, builds the
\* query and awaits fetch.
CallUpstream(v, n) ==
  LET from == FromTimestamp(v.timeRange, n)
      q == QueryParams(from, n, Timezone(req'.timezoneHeader), v.params)
  IN /\ now' = n
     /\ endpoint' = v.endpoint
     /\ params' = v.params
     /\ timeRange' = v.timeRange
     /\ fromTimestamp' = from
     /\ queryParams' = q
     /\ fetched' = <<UpstreamRequest(SITE_ID, v.endpoint, QueryString(q), NETLIFY_API_KEY)>>
     /\ pc' = "fetching"
     /\ UNCHANGED <<reply, response>>

\* The handler, from its invocation to its first return or to the fetch.
Handler(method, body, tz) ==
  /\ req' = [method |-> method, body |-> body, timezoneHeader |-> tz]
  /\ IF ConfigMissing(NETLIFY_API_KEY, SITE_ID)
       THEN Respond(ConfigErrorResponse)
     ELSE IF ~MethodAllowed(method)
       THEN Respond(MethodNotAllowedResponse)
     ELSE LET v == ValidateBody(body)
          IN IF ~v.ok
               THEN Respond(BadRequestResponse(v.message))
               ELSE \E i \in 1..Len(Nows) : CallUpstream(v, Nows[i])
  /\ UNCHANGED <<NETLIFY_API_KEY, SITE_ID, browserVars>>

HandleRequest ==
  /\ pc = "idle"
  /\ \E m \in 1..Len(Methods), z \in 1..Len(TimezoneHeaders) :
    \/ \E e \in 1..Len(EndpointFields), p \in 1..Len(ParamsFields),
          t \in 1..Len(TimeRangeFields) :
         Handler(Methods[m],
                 RequestBody(EndpointFields[e], ParamsFields[p], TimeRangeFields[t]),
                 TimezoneHeaders[z])
    \/ \E b \in 1..Len(OtherBodies) :
         Handler(Methods[m], OtherBodies[b], TimezoneHeaders[z])

\* The handler, from the settled fetch to its return.
Settle(r) ==
  /\ reply' = r
  /\ response' = UpstreamResult(endpoint, r)
  /\ pc' = "done"
  /\ UNCHANGED <<NETLIFY_API_KEY, SITE_ID, req, Locals, fetched, browserVars>>

FetchSettles ==
  /\ pc = "fetching"
  /\ \/ \E d \in 1..Len(ErrorDetails) : Settle(NetworkError(ErrorDetails[d]))
     \/ \E s \in 1..Len(ErrorStatuses), b \in 1..Len(ErrorBodies) :
          Settle(HttpReply(ErrorStatuses[s], StatusText(ErrorStatuses[s]), ErrorBodies[b]))
     \/ \E v \in 1..Len(OkValues) :
          Settle(HttpReply(200, StatusText(200), JsonStringify(OkValues[v])))
     \/ \E b \in 1..Len(OtherOkBodies) :
          Settle(HttpReply(200, StatusText(200), OtherOkBodies[b]))
     \/ Settle(HttpReply(204, StatusText(204), <<>>))

\* The invocation is over; the process waits for the next request.
Return ==
  /\ pc = "done"
  /\ pc' = "idle"
  /\ req' = NoRequest
  /\ now' = Undefined
  /\ endpoint' = Undefined
  /\ params' = Undefined
  /\ timeRange' = Undefined
  /\ fromTimestamp' = Undefined
  /\ queryParams' = <<>>
  /\ fetched' = <<>>
  /\ reply' = NoReply
  /\ response' = NoResponse
  /\ UNCHANGED <<NETLIFY_API_KEY, SITE_ID, browserVars>>

Next == HandleRequest \/ FetchSettles \/ Return

Spec == Init /\ [][Next]_vars

(***************************************************************************)
(* Properties of the proxy handler                                         *)
(***************************************************************************)
Absent(v) == v.t = "undefined"
Present(v) == v.t = "str" /\ v.s # ""
ConfigPresent == Present(NETLIFY_API_KEY) /\ Present(SITE_ID)
Invoked == pc # "idle"
IsSymbol(v) == v.t = "str" /\ v.s \in {"7d", "30d", "3m", "1y"}

\* The request as its sender wrote it: b is the parsed body of the request.
Supplies(b, k) == b.ok /\ b.val.t = "obj" /\ HasKey(b.val.o, k)
Sent(b, k) == IF Supplies(b, k) THEN Lookup(b.val.o, k) ELSE Undefined

\* The shape {error: <string>} of a parsed response body.
IsErrorBody(r) ==
  /\ r.ok
  /\ r.val.t = "obj"
  /\ Len(r.val.o) = 1
  /\ r.val.o[1].k = "error"
  /\ r.val.o[1].v.t = "str"

HeaderValue(name) ==
  IF \E i \in 1..Len(response.headers) : response.headers[i].k = name
    THEN (response.headers[CHOOSE i \in 1..Len(response.headers) :
                             response.headers[i].k = name]).v
    ELSE ""

\* C1 (as claimed): with configuration present and method POST, a body that
\* does not parse, that has no string `endpoint`, or that supplies a
\* `timeRange` other than '7d', '30d', '3m', '1y' is answered 400 with
\* {error: <message>} and no upstream request is issued.
C1_InvalidBodyRejected ==
  LET b == JsonParse(req.body)
  IN (/\ Invoked
      /\ ConfigPresent
      /\ req.method = "POST"
      /\ \/ ~b.ok
         \/ Sent(b, "endpoint").t # "str"
         \/ (Supplies(b, "timeRange") /\ ~IsSymbol(Sent(b, "timeRange"))))
     => (/\ pc = "done"
         /\ response.status = 400
         /\ IsErrorBody(JsonParse(response.body))
         /\ fetched = <<>>)

\* C2: when the credential or the site identifier is absent, every request
\* is answered 500 with the fixed configuration-error body, whatever its
\* method and body, and no upstream request is issued.
C2_ConfigMissingRejected ==
  (Invoked /\ (Absent(NETLIFY_API_KEY) \/ Absent(SITE_ID)))
  => (/\ pc = "done"
      /\ response.status = 500
      /\ response.body = <<P("{"), TStr("error"), P(":"),
                            TStr("Internal server configuration error."), P("}")>>
      /\ fetched = <<>>)

\* A GET with an unparseable body, and a site identifier but no credential.
C2_Witness ==
  /\ pc = "done"
  /\ Absent(NETLIFY_API_KEY) /\ Present(SITE_ID)
  /\ req.method = "GET"
  /\ ~JsonParse(req.body).ok
  /\ response.status = 500

\* C3: with configuration present, every request whose method is not POST
\* is answered 405 with `Allow: POST` and {error: "Method Not Allowed"},
\* whatever its body, and no upstream request is issued.
C3_MethodNotAllowed ==
  (Invoked /\ ConfigPresent /\ req.method # "POST")
  => (/\ pc = "done"
      /\ response.status = 405
      /\ HeaderValue("Allow") = "POST"
      /\ response.body = <<P("{"), TStr("error"), P(":"),
                            TStr("Method Not Allowed"), P("}")>>
      /\ fetched = <<>>)

\* A GET whose body a POST would have been accepted with.
C3_Witness ==
  /\ pc = "done"
  /\ ConfigPresent
  /\ req.method = "GET"
  /\ req.body = RequestBody(Str("/pageviews"), Undefined, Str("7d"))
  /\ response.status = 405

\* What the upstream answered.
Answered == pc = "done" /\ reply.kind = "http"
AnsweredOk == Answered /\ reply.status \in 200..299
HasArrayData(v) == v.t = "obj" /\ HasKey(v.o, "data") /\ Lookup(v.o, "data").t = "arr"
LooksLikeRecord(v) ==
  /\ v.t = "obj"
  /\ HasKey(v.o, "start")
  /\ HasKey(v.o, "end")
  /\ HasKey(v.o, "siteBandwidth")
EmptyEnvelope == <<P("{"), TStr("data"), P(":"), P("["), P("]"), P("}")>>
GenericFailure ==
  <<P("{"), TStr("error"), P(":"),
    TStr("Internal server error while contacting Netlify API."), P("}")>>

\* C4 (as claimed): for every upstream response whose status is not 2xx, the
\* proxy's response carries that status and a body {error, status, details}
\* whose `status` is that code and whose `details` is the upstream body as
\* raw text.
C4_UpstreamStatusForwarded ==
  LET r == JsonParse(response.body)
  IN (Answered /\ reply.status \notin 200..299)
     => (/\ response.status = reply.status
         /\ r.ok
         /\ r.val.t = "obj"
         /\ Len(r.val.o) = 3
         /\ Get(r.val, "error").t = "str"
         /\ Get(r.val, "status") = Num(reply.status)
         /\ Get(r.val, "details") = Str(TextOf(reply.body)))

\* C5: when the upstream call fails otherwise than by a non-2xx status (the
\* fetch rejects, or a 2xx body is not JSON), the response is 500 with one
\* fixed body: the same for every credential and every exception detail, so
\* that two runs differing only in those return identical bodies.
C5_GenericUpstreamFailure ==
  (pc = "done" /\ (reply.kind = "error" \/ (AnsweredOk /\ ~JsonParse(reply.body).ok)))
  => (/\ response.status = 500
      /\ response.body = GenericFailure)

\* A rejected fetch whose error text carries the credential in use.
C5_Witness ==
  /\ pc = "done"
  /\ reply.kind = "error"
  /\ reply.detail = "fetch failed: Bearer key-A"
  /\ NETLIFY_API_KEY = Str("key-A")
  /\ response.status = 500

\* C6 (as claimed): for '/bandwidth', a 2xx object without an array `data`
\* that has `start`, `end` (any numbers, 0 included) and a defined
\* `siteBandwidth` is returned as {data: [rawObject]}.
C6_SingleRecordWrapped ==
  LET u == JsonParse(reply.body)
      r == JsonParse(response.body)
  IN (/\ AnsweredOk
      /\ endpoint = Str("/bandwidth")
      /\ u.ok
      /\ ~HasArrayData(u.val)
      /\ LooksLikeRecord(u.val)
      /\ Get(u.val, "start").t = "num"
      /\ Get(u.val, "end").t = "num")
     => (/\ response.status = 200
         /\ r.ok
         /\ r.val = Obj(<<Prop("data", Arr(<<u.val>>))>>))

\* C7 (as claimed): for '/bandwidth', every 2xx JSON value without an array
\* `data` that is not a single bandwidth record (the empty object, another
\* object, null, a number, a string) is answered 200 {data: []}.
C7_FallbackEmptyEnvelope ==
  LET u == JsonParse(reply.body)
  IN (/\ AnsweredOk
      /\ endpoint = Str("/bandwidth")
      /\ u.ok
      /\ ~HasArrayData(u.val)
      /\ ~LooksLikeRecord(u.val))
     => (/\ response.status = 200
         /\ response.body = EmptyEnvelope)

\* C8: for every endpoint other than exactly '/bandwidth', and for
\* '/bandwidth' when `data` is an array, the 200 response body is the
\* upstream's parsed JSON, unchanged.
C8_PassThrough ==
  LET u == JsonParse(reply.body)
      r == JsonParse(response.body)
  IN (/\ AnsweredOk
      /\ u.ok
      /\ (endpoint # Str("/bandwidth") \/ HasArrayData(u.val)))
     => (/\ response.status = 200
         /\ r.ok
         /\ r.val = u.val)

\* A bare bandwidth record received for the endpoint '/bandwidth/'.
C8_Witness ==
  /\ AnsweredOk
  /\ endpoint = Str("/bandwidth/")
  /\ reply.body = JsonStringify(BandwidthRecord(Num(1), Num(2), Num(5)))
  /\ response.status = 200

\* The request passed validation: its upstream request has been issued.
Accepted == fetched # <<>>
Requested(b) ==
  IF IsSymbol(Sent(b, "timeRange")) THEN Sent(b, "timeRange") ELSE Str("30d")
ParamsSupply(b, k) == Sent(b, "params").t = "obj" /\ HasKey(Sent(b, "params").o, k)
Query(k) == Get(Obj(queryParams), k)

\* The documented offsets, in milliseconds: 604800000, 2592000000,
\* 7776000000 and 31536000000.
Offset(symbol) ==
  CASE symbol = Str("7d") -> Big(604, 800000)
    [] symbol = Str("30d") -> Big(2592, 0)
    [] symbol = Str("3m") -> Big(7776, 0)
    [] symbol = Str("1y") -> Big(31536, 0)

Plus(a, b) ==
  IF a.lo + b.lo >= Base
    THEN Big(a.hi + b.hi + 1, a.lo + b.lo - Base)
    ELSE Big(a.hi + b.hi, a.lo + b.lo)

\* C9 (as claimed): for every accepted request the upstream query has
\* `to` = now and `from` = now - offset of the requested range, from < to.
C9_QueryWindow ==
  LET b == JsonParse(req.body)
  IN Accepted
     => (/\ Query("to") = now
         /\ Query("from").t = "big"
         /\ Plus(Query("from"), Offset(Requested(b))) = now
         /\ BigLess(Query("from"), Query("to")))

\* C9 (amended): for every accepted request the window the handler computes
\* has to = now and from = now - offset, from < to; the upstream query
\* carries these two values, except that a `from` or `to` supplied in
\* `params` replaces the computed one.
C9_ComputedWindow ==
  LET b == JsonParse(req.body)
  IN Accepted
     => (/\ now.t = "big"
         /\ fromTimestamp.t = "big"
         /\ Plus(fromTimestamp, Offset(Requested(b))) = now
         /\ BigLess(fromTimestamp, now)
         /\ Query("to") = IF ParamsSupply(b, "to")
                            THEN Get(Sent(b, "params"), "to") ELSE now
         /\ Query("from") = IF ParamsSupply(b, "from")
                              THEN Get(Sent(b, "params"), "from") ELSE fromTimestamp)

\* A '7d' request at an instant whose subtraction borrows.
C9_Witness ==
  /\ pc = "fetching"
  /\ req.body = RequestBody(Str("/pageviews"), Undefined, Str("7d"))
  /\ now = Big(1793574, 123)
  /\ Query("from") = Big(1792969, 200123)
  /\ Query("to") = Big(1793574, 123)

\* A request that the configuration, the method and the endpoint let through.
WellFormedButForRange(b) ==
  /\ Invoked
  /\ ConfigPresent
  /\ req.method = "POST"
  /\ b.ok
  /\ Present(Sent(b, "endpoint"))

ThirtyDayQuery(b) ==
  QueryParams(FromTimestamp(Str("30d"), now), now, Timezone(req.timezoneHeader),
              Sent(b, "params"))

\* C10 (as claimed): a request whose time range is unrecognized or absent is
\* resolved to the window of a '30d' request at the same now, and the
\* resolution never fails.
C10_UnrecognizedAsThirtyDays ==
  LET b == JsonParse(req.body)
  IN (WellFormedButForRange(b) /\ ~IsSymbol(Sent(b, "timeRange")))
     => (/\ Accepted
         /\ Plus(fromTimestamp, Offset(Str("30d"))) = now
         /\ queryParams = ThirtyDayQuery(b))

\* C10 (amended): a request whose time range is absent is resolved to the
\* window of a '30d' request at the same now and is never rejected for it;
\* a request whose time range is any other value than the four symbols and
\* the falsy ones is rejected with 400 and resolved to no window.
C10_AbsentAsThirtyDays ==
  LET b == JsonParse(req.body)
  IN /\ (WellFormedButForRange(b) /\ ~Supplies(b, "timeRange"))
        => (/\ Accepted
            /\ Plus(fromTimestamp, Offset(Str("30d"))) = now
            /\ queryParams = ThirtyDayQuery(b))
     /\ (/\ WellFormedButForRange(b)
         /\ Truthy(Sent(b, "timeRange"))
         /\ ~IsSymbol(Sent(b, "timeRange")))
        => (/\ pc = "done"
            /\ response.status = 400
            /\ fetched = <<>>
            /\ fromTimestamp = Undefined)

\* A request without `timeRange`, awaiting the upstream.
C10_Witness ==
  /\ pc = "fetching"
  /\ ConfigPresent
  /\ req.body = RequestBody(Str("/pageviews"), Undefined, Undefined)
  /\ now = Big(1793574, 900000)
  /\ fromTimestamp = Big(1790982, 900000)

\* C11: the query sent upstream contains `from`, `to`, `timezone` and every
\* key of the request's `params` mapping, each key once; a `from`, `to` or
\* `timezone` of `params` replaces the computed value.
C11_QueryKeys ==
  LET b == JsonParse(req.body)
      p == Sent(b, "params")
      sent == fetched[1].query
  IN Accepted
     => (/\ \A k \in {"from", "to", "timezone"} : HasKey(queryParams, k)
         /\ \A i, j \in 1..Len(queryParams) :
              queryParams[i].k = queryParams[j].k => i = j
         /\ p.t = "obj"
            => \A i \in 1..Len(p.o) :
                 /\ HasKey(queryParams, p.o[i].k)
                 /\ Lookup(queryParams, p.o[i].k) = p.o[i].v
         /\ ~ParamsSupply(b, "from") => Query("from") = fromTimestamp
         /\ ~ParamsSupply(b, "to") => Query("to") = now
         /\ ~ParamsSupply(b, "timezone")
            => Query("timezone") = Timezone(req.timezoneHeader)
         /\ Len(sent) = Len(queryParams)
         /\ \A i \in 1..Len(sent) :
              /\ sent[i].key = EncodeURIComponent(queryParams[i].k)
              /\ sent[i].value = EncodeURIComponent(ToStr(queryParams[i].v)))

\* A request whose params carry their own `timezone` and an extra key.
C11_Witness ==
  /\ pc = "fetching"
  /\ req.timezoneHeader = Str("Europe/Rome")
  /\ req.body = RequestBody(Str("/ranking/sources"),
                            Obj(<<Prop("timezone", Str("Mars/Base")),
                                  Prop("q", Str("a&b=c"))>>),
                            Str("7d"))
  /\ Query("timezone") = Str("Mars/Base")
  /\ Query("q") = Str("a&b=c")
  /\ Len(fetched[1].query) = 4

(***************************************************************************)
(* The client: services/netlifyApi.ts, fetchNetlifyData and its wrappers   *)
(***************************************************************************)
proxyVars == <<NETLIFY_API_KEY, SITE_ID, pc, req, now, endpoint, params, timeRange,
               fromTimestamp, queryParams, fetched, reply, response>>

\* getPageViews .. getNotFound: the endpoint and params each one passes.
Operations ==
  <<[name |-> "getPageViews", endpoint |-> "/pageviews", params |-> Undefined],
    [name |-> "getVisitors", endpoint |-> "/visitors", params |-> Undefined],
    [name |-> "getCountries", endpoint |-> "/ranking/countries", params |-> Undefined],
    [name |-> "getBandwidth", endpoint |-> "/bandwidth", params |-> Undefined],
    [name |-> "getSources", endpoint |-> "/ranking/sources",
     params |-> Obj(<<Prop("limit", Num(10))>>)],
    [name |-> "getPages", endpoint |-> "/ranking/pages",
     params |-> Obj(<<Prop("limit", Num(15))>>)],
    [name |-> "getNotFound", endpoint |-> "/ranking/not_found",
     params |-> Obj(<<Prop("limit", Num(15))>>)]>>

\* The argument of a wrapper: a TimeRange, or nothing.
TimeRangeArgs == <<Str("7d"), Str("30d"), Str("3m"), Str("1y"), Undefined>>

\* timeRange: TimeRange = '30d'
DefaultedTimeRange(tr) == IF tr.t = "undefined" THEN Str("30d") ELSE tr

\* Intl.DateTimeFormat().resolvedOptions().timeZone
ClientTimezones == <<Str("Europe/Rome"), Str("UTC")>>

\* The fetch of lines 60-71.
ProxyRequest(c, tz) ==
  [url |-> "/.netlify/functions/api", method |-> "POST", timezoneHeader |-> tz,
   body |-> RequestBody(Str(c.endpoint), c.params, c.timeRange)]

EmptyResponse == Obj(<<Prop("data", Arr(<<>>))>>)

Error(message) == [level |-> "error", message |-> message]
Success(message) == [level |-> "success", message |-> message]

Resolved(value, notes) == [state |-> "resolved", value |-> value, toasts |-> notes]

\* The outer catch, lines 101-106.
CallFailed(c) ==
  Resolved(EmptyResponse,
           <<Error("Failed calling API proxy for " \o c.endpoint \o " (" \o
                   ToStr(c.timeRange) \o "). Check console.")>>)

\* toast.error of lines 78 and 82.
ApiError(c, detail) ==
  Resolved(EmptyResponse,
           <<Error("API Error fetching " \o c.endpoint \o " (" \o ToStr(c.timeRange)
                   \o "): " \o detail \o ". Check console.")>>)

\* Lines 73-85. response.json() consumes the body: when it has rejected, or
\* errorData.error could not be read, the response.text() of the inner catch
\* rejects as well (body already used) and the outer catch takes over. A
\* response without a body stream can be read again, as the empty text.
NotOkOutcome(c, a) ==
  LET errorData == JsonParse(a.reply.body)
  IN IF errorData.ok /\ ~GetThrows(errorData.val)
       THEN LET e == Get(errorData.val, "error")
            IN ApiError(c, IF Truthy(e) THEN ToStr(e) ELSE a.reply.statusText)
     ELSE IF a.stream THEN CallFailed(c)
     ELSE ApiError(c, a.reply.statusText)

\* Variant: only null counts as missing data.
MissingDataOnlyNull(jsonData) == jsonData.t = "null"

\* typeof jsonData !== 'object' || jsonData === null || !jsonData.hasOwnProperty('data')
MissingData(jsonData) ==
  \/ TypeOf(jsonData) # "object"
  \/ jsonData.t = "null"
  \/ ~(jsonData.t = "obj" /\ HasKey(jsonData.o, "data"))

\* jsonData.hasOwnProperty is not a function when the body has its own key
\* of that name: the call throws (TypeError).
HasOwnPropertyThrows(jsonData) ==
  /\ jsonData.t = "obj"
  /\ HasKey(jsonData.o, "hasOwnProperty")

\* Lines 87-100.
OkOutcome(c, a) ==
  LET jsonData == JsonParse(a.reply.body)
  IN IF ~jsonData.ok THEN CallFailed(c)
     ELSE IF HasOwnPropertyThrows(jsonData.val) THEN CallFailed(c)
     ELSE IF MissingData(jsonData.val)
       THEN Resolved(EmptyResponse,
                     <<Error("Unexpected data format received for " \o c.endpoint
                             \o " (" \o ToStr(c.timeRange) \o ").")>>)
     ELSE Resolved(jsonData.val, <<>>)

\* fetchNetlifyData from the settled fetch to its return.
ClientOutcome(c, a) ==
  IF a.reply.kind = "error" THEN CallFailed(c)
  ELSE IF ~IsOk(a.reply) THEN NotOkOutcome(c, a)
  ELSE OkOutcome(c, a)


\* The proxy's handler run on one request, the upstream settling with r.
ProxyAnswer(apiKey, siteId, request, r) ==
  IF ConfigMissing(apiKey, siteId) THEN ConfigErrorResponse
  ELSE IF ~MethodAllowed(request.method) THEN MethodNotAllowedResponse
  ELSE LET v == ValidateBody(request.body)
       IN IF ~v.ok THEN BadRequestResponse(v.message)
          ELSE UpstreamResult(v.endpoint, r)

\* Every way the upstream fetch of the proxy settles.
UpstreamReplies ==
  [d \in 1..Len(ErrorDetails) |-> NetworkError(ErrorDetails[d])]
  \o [k \in 1..(Len(ErrorStatuses) * Len(ErrorBodies)) |->
        LET st == ErrorStatuses[((k - 1) \div Len(ErrorBodies)) + 1]
        IN HttpReply(st, StatusText(st), ErrorBodies[((k - 1) % Len(ErrorBodies)) + 1])]
  \o [v \in 1..Len(OkValues) |-> HttpReply(200, StatusText(200), JsonStringify(OkValues[v]))]
  \o [b \in 1..Len(OtherOkBodies) |-> HttpReply(200, StatusText(200), OtherOkBodies[b])]
  \o <<HttpReply(204, StatusText(204), <<>>)>>

\* A Response of the proxy as the browser's fetch delivers it.
Delivered(r) ==
  [reply |-> HttpReply(r.status, StatusText(r.status), r.body), stream |-> TRUE]

\* What the fetch settles with when the function never ran or its answer
\* was replaced on the way: a rejected fetch, a gateway's error page, the
\* site's index page (function not deployed), an error without a body.
PlatformReplies ==
  <<[reply |-> NetworkError("Failed to fetch"), stream |-> FALSE],
    [reply |-> HttpReply(502, "Bad Gateway", <<Raw("<html>502</html>")>>), stream |-> TRUE],
    [reply |-> HttpReply(504, "Gateway Timeout", <<>>), stream |-> TRUE],
    [reply |-> HttpReply(404, StatusText(404), <<>>), stream |-> FALSE],
    [reply |-> HttpReply(429, "", JsonStringify(Null)), stream |-> TRUE],
    [reply |-> HttpReply(500, StatusText(500),
                         JsonStringify(Obj(<<Prop("error", Obj(<<>>))>>))), stream |-> TRUE],
    [reply |-> HttpReply(200, StatusText(200), <<Raw("<!doctype html>")>>), stream |-> TRUE]>>


\* A wrapper is called: fetchNetlifyData up to its await of fetch.
FetchNetlifyData(op, tr, tz) ==
  LET c == [endpoint |-> op.endpoint, params |-> op.params,
            timeRange |-> DefaultedTimeRange(tr)]
  IN /\ call' = c
     /\ posted' = <<ProxyRequest(c, tz)>>
     /\ cpc' = "awaiting"
     /\ UNCHANGED <<answer, result, toasts, proxyVars, exportVars, uiVars>>

CallMetric ==
  /\ cpc = "idle"
  /\ \E o \in 1..Len(Operations), t \in 1..Len(TimeRangeArgs), z \in 1..Len(ClientTimezones) :
       FetchNetlifyData(Operations[o], TimeRangeArgs[t], ClientTimezones[z])

\* fetchNetlifyData from the settled fetch to the settling of its promise.
ClientSettle(a) ==
  LET o == ClientOutcome(call, a)
  IN /\ answer' = a
     /\ result' = [state |-> o.state, value |-> o.value]
     /\ toasts' = toasts \o o.toasts
     /\ cpc' = "resolved"
     /\ UNCHANGED <<call, posted, proxyVars, exportVars, uiVars>>

\* The proxy function handled the request.
ProxyAnswers ==
  /\ cpc = "awaiting"
  /\ \E i \in 1..Len(UpstreamReplies) :
       ClientSettle(Delivered(ProxyAnswer(NETLIFY_API_KEY, SITE_ID, posted[1],
                                          UpstreamReplies[i])))

PlatformAnswers ==
  /\ cpc = "awaiting"
  /\ \E i \in 1..Len(PlatformReplies) : ClientSettle(PlatformReplies[i])

\* The caller has the value; the notifications are dismissed.
ClientReturn ==
  /\ cpc = "resolved"
  /\ cpc' = "idle"
  /\ call' = NoCall
  /\ posted' = <<>>
  /\ answer' = NoAnswer
  /\ result' = Pending
  /\ toasts' = <<>>
  /\ UNCHANGED <<proxyVars, exportVars, uiVars>>

ClientNext == CallMetric \/ ProxyAnswers \/ PlatformAnswers \/ ClientReturn

ClientSpec == Init /\ [][ClientNext]_vars

(***************************************************************************)
(* Properties of the client                                                *)
(***************************************************************************)
\* The body of the answer is an object with a `data` property.
HasData(a) ==
  LET j == JsonParse(a.reply.body)
  IN j.ok /\ j.val.t = "obj" /\ HasKey(j.val.o, "data")

C13_DataAlwaysArray ==
  cpc = "resolved" =>
    /\ result.value.t = "obj"
    /\ Get(result.value, "data").t = "arr"


(***************************************************************************)
(* Byte counts as text: formatBytes of the service and of the page         *)
(***************************************************************************)
K == 1024

Sizes == <<"Bytes", "KB", "MB", "GB", "TB", "PB", "EB", "ZB", "YB">>

\* Math.floor(Math.log(bytes) / Math.log(k)) of an integer bytes >= 1.
RECURSIVE UnitIndex(_)
UnitIndex(bytes) == IF bytes < K THEN 0 ELSE 1 + UnitIndex(bytes \div K)

\* Math.pow(k, i)
RECURSIVE Pow(_, _)
Pow(k, i) == IF i = 0 THEN 1 ELSE k * Pow(k, i - 1)

\* (bytes / Math.pow(k, i)).toFixed(2), as a count of hundredths: the
\* quotient is exact in binary, so the nearest hundredth is taken and a tie
\* goes up.
ToFixed2(bytes, i) == ((2 * 100 * bytes) + Pow(K, i)) \div (2 * Pow(K, i))

\* parseFloat of that text, back to text: trailing zeros are gone.
ParseFloatText(hundredths) ==
  LET whole == hundredths \div 100
      frac == hundredths % 100
  IN IF frac = 0 THEN ToString(whole)
     ELSE IF frac % 10 = 0 THEN ToString(whole) \o "." \o ToString(frac \div 10)
     ELSE IF frac < 10 THEN ToString(whole) \o ".0" \o ToString(frac)
     ELSE ToString(whole) \o "." \o ToString(frac)

\* Lines 128-132 for a positive integer.
Humanized(bytes) ==
  LET i == UnitIndex(bytes)
  IN ParseFloatText(ToFixed2(bytes, i)) \o " " \o Sizes[i + 1]

\* formatBytes of services/netlifyApi.ts, for a non-negative integer,
\* undefined or null. Only 0 is special: for undefined and null every
\* intermediate value is NaN and sizes[NaN] is undefined.
FormatBytes(bytes) ==
  IF StrictEq(bytes, Num(0)) THEN "0 Bytes"
  ELSE IF bytes.t = "num" /\ bytes.n > 0 THEN Humanized(bytes.n)
  ELSE "NaN" \o " " \o "undefined"

\* formatBytes of pages/Analytics.tsx, on the same inputs.
PageFormatBytes(bytes) ==
  IF bytes.t = "undefined" \/ bytes.t = "null" \/ StrictEq(bytes, Num(0)) THEN "0 Bytes"
  ELSE IF bytes.t = "num" /\ bytes.n > 0 THEN Humanized(bytes.n)
  ELSE "0" \o " " \o "undefined"

(***************************************************************************)
(* Text with commas and quotes                                             *)
(***************************************************************************)
\* A text is handled as its pieces; a comma and a double quote are always a
\* piece of their own, so includes(',') is a test on the pieces.
MaxText == 2

Comma == ","
Quote == "\""

Alphabet == {"a", Comma, Quote}

Texts == UNION {[1..n -> Alphabet] : n \in 0..MaxText}

RECURSIVE Join(_)
Join(ps) == IF ps = <<>> THEN "" ELSE Head(ps) \o Join(Tail(ps))

\* The string value made of these pieces.
Text(ps) == Str(Join(ps))

Locales == <<"en-US", "sv-SE">>

\* The instants the exported records carry (milliseconds).
Instants == <<1000, 86400000>>

\* new Date(ms).toLocaleString(): the date and the time of day, separated
\* by ", " in en-US and by a space in sv-SE. The calendar fields are left
\* symbolic.
LocaleString(ms, locale) ==
  IF locale = "en-US"
    THEN <<"date(" \o ToString(ms) \o ")", Comma, " time(" \o ToString(ms) \o ")">>
    ELSE <<"date(" \o ToString(ms) \o ") time(" \o ToString(ms) \o ")">>

KnownTexts ==
  Texts \cup {LocaleString(Instants[i], Locales[l]) :
                i \in 1..Len(Instants), l \in 1..Len(Locales)}

\* The pieces of a string; a string that is none of the known texts has no
\* comma and no quote in it.
Pieces(s) ==
  IF s = "" THEN <<>>
  ELSE IF \E ps \in KnownTexts : Join(ps) = s
    THEN CHOOSE ps \in KnownTexts : Join(ps) = s
  ELSE <<s>>

\* sep between the texts, as Array.prototype.join does.
RECURSIVE JoinWith(_, _)
JoinWith(texts, sep) ==
  IF texts = <<>> THEN <<>>
  ELSE IF Len(texts) = 1 THEN texts[1]
  ELSE texts[1] \o <<sep>> \o JoinWith(Tail(texts), sep)

\* String(value), in pieces; an array is its elements joined with commas,
\* null and undefined elements giving nothing.
RECURSIVE StringOf(_)
StringOf(v) ==
  CASE v.t = "str" -> Pieces(v.s)
    [] v.t = "arr" ->
         JoinWith([i \in 1..Len(v.a) |->
                     IF v.a[i].t \in {"undefined", "null"} THEN <<>> ELSE StringOf(v.a[i])],
                  Comma)
    [] OTHER -> <<ToStr(v)>>


(***************************************************************************)
(* exportToCsv                                                             *)
(***************************************************************************)
\* v[0]
First(v) ==
  CASE v.t = "arr" -> IF Len(v.a) > 0 THEN v.a[1] ELSE Undefined
    [] OTHER -> Get(v, "0")

\* v?.k
OptGet(v, k) == IF GetThrows(v) THEN Undefined ELSE Get(v, k)

\* !data || data.length === 0
NothingToExport(data) == ~Truthy(data) \/ StrictEq(Get(data, "length"), Num(0))

\* Lines 143-150: one envelope in an array, or a bare envelope, is opened.
Unwrap(data) ==
  IF /\ IsArray(data)
     /\ StrictEq(Get(data, "length"), Num(1))
     /\ Truthy(OptGet(First(data), "data"))
     /\ IsArray(Get(First(data), "data"))
    THEN Get(First(data), "data")
  ELSE IF Truthy(data) /\ Truthy(Get(data, "data")) /\ IsArray(Get(data, "data"))
    THEN Get(data, "data")
  ELSE data

\* Variant: an object or array without keys is let through.
InvalidFirstItemAllowsEmpty(firstItem) ==
  \/ ~Truthy(firstItem)
  \/ (TypeOf(firstItem) # "object" /\ ~IsArray(firstItem))

\* Line 160.
InvalidFirstItem(firstItem) ==
  \/ ~Truthy(firstItem)
  \/ (TypeOf(firstItem) # "object" /\ ~IsArray(firstItem))
  \/ KeyCount(firstItem) = 0

\* Object.keys
ObjectKeys(v) ==
  CASE v.t = "obj" -> [i \in 1..Len(v.o) |-> v.o[i].k]
    [] v.t = "arr" -> [i \in 1..Len(v.a) |-> ToString(i - 1)]
    [] OTHER -> <<>>

Defined(v) == v.t # "undefined"

\* Variant: the ranking columns for 'sources' whatever the first record holds.
FormatByNameOnly(filename, firstItem) ==
  IF filename = "bandwidth" /\ Defined(Get(firstItem, "siteBandwidth"))
    THEN [shape |-> "bandwidth",
          headersOrder |-> <<"siteBandwidth", "accountBandwidth", "start", "end">>]
  ELSE IF filename = "not_found" /\ Defined(Get(firstItem, "resource"))
    THEN [shape |-> "objects", headersOrder |-> <<"resource", "count">>]
  ELSE IF filename = "countries" /\ Defined(Get(firstItem, "resource"))
    THEN [shape |-> "objects",
          headersOrder |-> IF Defined(Get(firstItem, "country_name"))
                             THEN <<"resource", "country_name", "count">>
                             ELSE <<"resource", "count">>]
  ELSE IF filename = "sources"
    THEN [shape |-> "objects", headersOrder |-> <<"resource", "count">>]
  ELSE IF filename = "pages" /\ Defined(Get(firstItem, "resource"))
    THEN [shape |-> "objects", headersOrder |-> <<"resource", "count">>]
  ELSE IF filename \in {"pageviews", "visitors"} /\ IsArray(firstItem)
    THEN [shape |-> "pairs", headersOrder |-> <<"Date", "Count">>]
  ELSE IF TypeOf(firstItem) = "object" /\ ~IsArray(firstItem)
    THEN [shape |-> "objects", headersOrder |-> ObjectKeys(firstItem)]
  ELSE [shape |-> "none", headersOrder |-> <<>>]

\* The if-chain of lines 171-216: which rows are written and in which
\* column order, from the filename and the first item.
Format(filename, firstItem) ==
  IF filename = "bandwidth" /\ Defined(Get(firstItem, "siteBandwidth"))
    THEN [shape |-> "bandwidth",
          headersOrder |-> <<"siteBandwidth", "accountBandwidth", "start", "end">>]
  ELSE IF filename = "not_found" /\ Defined(Get(firstItem, "resource"))
    THEN [shape |-> "objects", headersOrder |-> <<"resource", "count">>]
  ELSE IF filename = "countries" /\ Defined(Get(firstItem, "resource"))
    THEN [shape |-> "objects",
          headersOrder |-> IF Defined(Get(firstItem, "country_name"))
                             THEN <<"resource", "country_name", "count">>
                             ELSE <<"resource", "count">>]
  ELSE IF filename = "sources" /\ Defined(Get(firstItem, "resource"))
    THEN [shape |-> "objects", headersOrder |-> <<"resource", "count">>]
  ELSE IF filename = "pages" /\ Defined(Get(firstItem, "resource"))
    THEN [shape |-> "objects", headersOrder |-> <<"resource", "count">>]
  ELSE IF filename \in {"pageviews", "visitors"} /\ IsArray(firstItem)
    THEN [shape |-> "pairs", headersOrder |-> <<"Date", "Count">>]
  ELSE IF TypeOf(firstItem) = "object" /\ ~IsArray(firstItem)
    THEN [shape |-> "objects", headersOrder |-> ObjectKeys(firstItem)]
  ELSE [shape |-> "none", headersOrder |-> <<>>]

\* item.start ? new Date(item.start).toLocaleString() : 'N/A'
DateOrNA(v, locale) ==
  IF Truthy(v) THEN Text(LocaleString(v.n, locale)) ELSE Str("N/A")

\* The callback of the map of lines 173-178.
BandwidthRow(item, locale) ==
  Obj(<<Prop("siteBandwidth", Str(FormatBytes(Get(item, "siteBandwidth")))),
        Prop("accountBandwidth", Str(FormatBytes(Get(item, "accountBandwidth")))),
        Prop("start", DateOrNA(Get(item, "start"), locale)),
        Prop("end", DateOrNA(Get(item, "end"), locale))>>)

\* That callback reads item.siteBandwidth: a null or undefined item throws.
BandwidthMapThrows(actualData) ==
  \E i \in 1..Len(actualData.a) : GetThrows(actualData.a[i])

\* replace(/"/g, '""')
RECURSIVE DoubleQuotes(_)
DoubleQuotes(ps) ==
  IF ps = <<>> THEN <<>>
  ELSE (IF Head(ps) = Quote THEN <<Quote, Quote>> ELSE <<Head(ps)>>)
       \o DoubleQuotes(Tail(ps))

\* Variant: quoted for a comma only.
FieldCommaOnly(value) ==
  LET stringValue == StringOf(IF value.t \in {"undefined", "null"} THEN Str("") ELSE value)
      needsQuotes == \E i \in 1..Len(stringValue) : stringValue[i] = Comma
      escapedValue == DoubleQuotes(stringValue)
  IN IF needsQuotes THEN <<Quote>> \o escapedValue \o <<Quote>> ELSE escapedValue

\* Lines 227-231.
Field(value) ==
  LET stringValue == StringOf(IF value.t \in {"undefined", "null"} THEN Str("") ELSE value)
      needsQuotes == \E i \in 1..Len(stringValue) : stringValue[i] \in {Comma, Quote}
      escapedValue == DoubleQuotes(stringValue)
  IN IF needsQuotes THEN <<Quote>> \o escapedValue \o <<Quote>> ELSE escapedValue

\* The callback of the map of lines 222-233.
ObjectRow(row, headersOrder) ==
  IF TypeOf(row) # "object" \/ row.t = "null" THEN <<>>
  ELSE JoinWith([h \in 1..Len(headersOrder) |-> Field(Get(row, headersOrder[h]))], Comma)

\* Array.isArray(row) ? row.join(",") : ''
PairRow(row) == IF IsArray(row) THEN StringOf(row) ELSE <<>>

\* The link that is clicked: its download attribute and the lines of the
\* csvContent its href encodes.
Download(filename, headers, rows) ==
  [download |-> filename \o ".csv",
   lines |-> <<JoinWith([h \in 1..Len(headers) |-> Pieces(headers[h])], Comma)>> \o rows]

Returned(notes, links) == [outcome |-> "returned", toasts |-> notes, downloads |-> links]
Threw == [outcome |-> "threw", toasts |-> <<>>, downloads |-> <<>>]

Exported(filename) == Success("Exported " \o filename \o ".csv successfully!")

\* exportToCsv(data, filename), run where toLocaleString uses `locale`.
ExportToCsv(data, filename, locale) ==
  IF NothingToExport(data)
    THEN Returned(<<Error("No data available to export.")>>, <<>>)
  ELSE
  LET actualData == Unwrap(data)
      firstItem == First(actualData)
      f == Format(filename, firstItem)
  IN IF NothingToExport(actualData)
       THEN Returned(<<Error("No valid data found after potential unwrapping.")>>, <<>>)
     ELSE IF InvalidFirstItem(firstItem)
       THEN Returned(<<Error("Data format is invalid for export.")>>, <<>>)
     ELSE IF f.shape = "none"
       THEN Returned(<<Error("Cannot determine export format for " \o filename \o ".")>>,
                     <<>>)
     ELSE IF f.shape = "pairs"
       THEN Returned(<<Exported(filename)>>,
                     <<Download(filename, f.headersOrder,
                                [i \in 1..Len(actualData.a) |-> PairRow(actualData.a[i])])>>)
     ELSE IF f.shape = "bandwidth" /\ BandwidthMapThrows(actualData)
       THEN Threw
     ELSE
       LET processedData ==
             IF f.shape = "bandwidth"
               THEN [i \in 1..Len(actualData.a) |-> BandwidthRow(actualData.a[i], locale)]
               ELSE actualData.a
       IN Returned(<<Exported(filename)>>,
                   <<Download(filename, f.headersOrder,
                              [i \in 1..Len(processedData) |->
                                 ObjectRow(processedData[i], f.headersOrder)])>>)


(***************************************************************************)
(* The exports a page can ask for                                          *)
(***************************************************************************)
\* The filenames the page passes, and one it does not.
Filenames ==
  <<"pageviews", "visitors", "countries", "bandwidth", "sources", "pages",
    "not_found", "custom">>

\* An object of the properties whose value is not undefined, as JSON
\* delivers it.
Record(props) == Obj(SelectSeq(props, LAMBDA q : Defined(q.v)))

\* SourceData, PageData, CountryData
Ranked(resource, countryName, count) ==
  Record(<<Prop("resource", resource), Prop("country_name", countryName),
           Prop("count", count)>>)

\* BandwidthData
Usage(site, account, start, end) ==
  Record(<<Prop("start", start), Prop("end", end), Prop("siteBandwidth", site),
           Prop("accountBandwidth", account)>>)

ByteCounts ==
  {Num(0), Num(1), Num(1023), Num(1024), Num(1536), Num(1048575), Num(1048576),
   Num(5242880), Undefined, Null}

\* What a field of a record may hold besides a text.
OtherValues ==
  {Undefined, Null, Num(0), Num(3), Bool(FALSE), Str("(direct)"),
   Arr(<<Num(1), Num(2)>>), Obj(<<>>)}

\* What may follow the first item of an array.
LaterItems ==
  {Null, Undefined, Num(5), Str("x"), Arr(<<Num(2000), Num(4)>>), Obj(<<>>),
   Ranked(Str("/home"), Str("Italy"), Num(2)),
   Usage(Num(1024), Num(0), Num(0), Num(1000))}

FirstItems ==
  {Ranked(Text(t), Undefined, Num(3)) : t \in Texts}
  \cup {Ranked(Str("IT"), Text(t), Num(3)) : t \in Texts}
  \cup {Ranked(v, Undefined, w) : v, w \in OtherValues}
  \cup {Usage(s, a, Num(1000), Num(86400000)) : s, a \in ByteCounts}
  \cup {Usage(Num(1536), Num(0), Num(0), Num(1000)),
        Usage(Num(1536), Num(0), Undefined, Null),
        Obj(<<Prop("name", Text(<<Quote, Comma>>)), Prop("n", Num(1))>>),
        Arr(<<Str("1/1/2026"), Num(3)>>), Arr(<<Num(1000), Null>>), Arr(<<>>),
        Null, Undefined, Num(0), Num(5), Str(""), Str("x"), Bool(TRUE)}

\* The arrays handed to exportToCsv, and what is handed in their place.
DataInputs ==
  {Arr(<<f>>) : f \in FirstItems}
  \cup {Arr(<<f, l>>) :
          f \in {Ranked(Str("(direct)"), Undefined, Num(3)),
                 Usage(Num(1536), Num(0), Num(0), Num(1000)),
                 Arr(<<Num(1000), Num(3)>>)},
          l \in LaterItems}
  \cup {Arr(<<>>), Undefined, Null,
        Arr(<<Obj(<<Prop("data", Arr(<<Ranked(Str("a"), Undefined, Num(1))>>))>>)>>),
        Arr(<<Obj(<<Prop("data", Arr(<<>>))>>)>>),
        Arr(<<Obj(<<Prop("data", Null)>>)>>),
        Obj(<<Prop("data", Arr(<<Ranked(Str("a"), Undefined, Num(1))>>))>>),
        Obj(<<Prop("data", Arr(<<>>))>>),
        Obj(<<Prop("total", Num(3))>>)}

\* A click on an export button: exportToCsv runs to its end.
Export(data, filename, locale) ==
  LET r == ExportToCsv(data, filename, locale)
  IN /\ exporting' = [data |-> data, filename |-> filename, locale |-> locale]
     /\ xpc' = r.outcome
     /\ toasts' = toasts \o r.toasts
     /\ downloads' = downloads \o r.downloads
     /\ UNCHANGED <<proxyVars, cpc, call, posted, answer, result, uiVars>>

ExportClicked ==
  /\ xpc = "idle"
  /\ \E d \in DataInputs, f \in 1..Len(Filenames), l \in 1..Len(Locales) :
       Export(d, Filenames[f], Locales[l])

\* The page is left: notifications and downloads are cleared.
ExportDone ==
  /\ xpc # "idle"
  /\ xpc' = "idle"
  /\ exporting' = NoExport
  /\ toasts' = <<>>
  /\ downloads' = <<>>
  /\ UNCHANGED <<proxyVars, cpc, call, posted, answer, result, uiVars>>

ExportNext == ExportClicked \/ ExportDone

\* The page is served by a deployment whose function is configured.
Deployed ==
  /\ Init
  /\ NETLIFY_API_KEY = Str("key-A")
  /\ SITE_ID = Str("site-1")

ExportSpec == Deployed /\ [][ExportNext]_vars


(***************************************************************************)
(* Properties of exportToCsv                                               *)
(***************************************************************************)
\* The input with one {data: [...]} envelope taken off.
Opened(d) ==
  IF d.t = "arr" /\ Len(d.a) = 1 /\ d.a[1].t = "obj" /\ Get(d.a[1], "data").t = "arr"
    THEN Get(d.a[1], "data")
  ELSE IF d.t = "obj" /\ Get(d, "data").t = "arr" THEN Get(d, "data")
  ELSE d

IsEmptyInput(d) == d.t \in {"undefined", "null"} \/ d = Arr(<<>>)

FirstOf(d) == IF d.t = "arr" /\ d.a # <<>> THEN d.a[1] ELSE Undefined

NonEmptyObjectOrArray(x) == (x.t = "obj" /\ x.o # <<>>) \/ (x.t = "arr" /\ x.a # <<>>)

Undeterminable(filename, x) == x.t = "arr" /\ filename \notin {"pageviews", "visitors"}

\* The failure cases of an export, read off its arguments.
ExportFails ==
  LET d == exporting.data
  IN \/ IsEmptyInput(d)
     \/ IsEmptyInput(Opened(d))
     \/ ~NonEmptyObjectOrArray(FirstOf(Opened(d)))
     \/ Undeterminable(exporting.filename, FirstOf(Opened(d)))

\* C14: an export that returns either failed, with no download and exactly
\* one error notification (empty input, empty after unwrapping, first
\* element not a non-empty object or array, undeterminable format), or
\* succeeded, with exactly one download named <kind>.csv and exactly one
\* success notification.
C14_OneOutcome ==
  xpc = "returned" =>
    /\ Len(toasts) = 1
    /\ IF ExportFails
         THEN downloads = <<>> /\ toasts[1].level = "error"
         ELSE /\ Len(downloads) = 1
              /\ downloads[1].download = exporting.filename \o ".csv"
              /\ toasts[1].level = "success"

C14_Witness ==
  /\ xpc = "returned"
  /\ exporting.filename = "countries"
  /\ exporting.data = Arr(<<Ranked(Str("IT"), Text(<<"a">>), Num(3))>>)
  /\ Len(downloads) = 1
  /\ downloads[1].download = "countries.csv"
  /\ toasts = <<Success("Exported countries.csv successfully!")>>

\* C15: exportToCsv never throws, whatever the array and the kind, also
\* when a later element is null, undefined or not an object.
C15_NeverThrows == xpc # "threw"

\* A line of CSV split on the commas outside quotes, each field unquoted.
RECURSIVE SplitRow(_, _, _, _)
SplitRow(ps, inQuotes, field, fields) ==
  IF ps = <<>> THEN Append(fields, field)
  ELSE IF Head(ps) = Quote
    THEN IF inQuotes /\ Len(ps) > 1 /\ ps[2] = Quote
           THEN SplitRow(Tail(Tail(ps)), TRUE, Append(field, Quote), fields)
           ELSE SplitRow(Tail(ps), ~inQuotes, field, fields)
  ELSE IF Head(ps) = Comma /\ ~inQuotes
    THEN SplitRow(Tail(ps), FALSE, <<>>, Append(fields, field))
  ELSE SplitRow(Tail(ps), inQuotes, Append(field, Head(ps)), fields)

Fields(line) == SplitRow(line, FALSE, <<>>, <<>>)

\* The string form of a value of a record; nothing for a missing,
\* undefined or null one.
StringForm(v) == IF v.t \in {"undefined", "null"} THEN <<>> ELSE StringOf(v)

HasCommaOrQuote(text) == \E i \in 1..Len(text) : text[i] \in {Comma, Quote}

Quoted(text) ==
  IF HasCommaOrQuote(text) THEN <<Quote>> \o DoubleQuotes(text) \o <<Quote>> ELSE text

\* The export wrote rows from object records.
ObjectExport ==
  /\ xpc = "returned"
  /\ downloads # <<>>
  /\ FirstOf(Opened(exporting.data)).t = "obj"

BandwidthExport ==
  /\ ObjectExport
  /\ exporting.filename = "bandwidth"
  /\ Defined(Get(FirstOf(Opened(exporting.data)), "siteBandwidth"))

\* The record whose values row i shows.
Shown(i) ==
  LET item == Opened(exporting.data).a[i]
  IN IF BandwidthExport THEN BandwidthRow(item, exporting.locale) ELSE item

\* The texts row i has to show, one per column of the header line.
RowTexts(i) ==
  LET columns == Fields(downloads[1].lines[1])
  IN [h \in 1..Len(columns) |-> StringForm(Get(Shown(i), Join(columns[h])))]

\* C16: in every row written from an object record, a field is wrapped in
\* double quotes exactly when its string form has a comma or a double
\* quote, embedded double quotes are doubled, a missing, undefined or null
\* value is the empty string, and unquoting and splitting the row gives the
\* string forms back.
C16_FieldEscaping ==
  ObjectExport =>
    \A i \in 1..Len(Opened(exporting.data).a) :
      Opened(exporting.data).a[i].t = "obj" =>
        LET line == downloads[1].lines[i + 1]
            texts == RowTexts(i)
        IN /\ line = JoinWith([h \in 1..Len(texts) |-> Quoted(texts[h])], Comma)
           /\ Fields(line) = texts

C16_Witness ==
  /\ ObjectExport
  /\ exporting.filename = "sources"
  /\ exporting.data = Arr(<<Ranked(Text(<<Comma, Quote>>), Undefined, Num(3))>>)
  /\ downloads[1].lines[2] = <<Quote, Comma, Quote, Quote, Quote, Comma, "3">>
  /\ Fields(downloads[1].lines[2]) = <<<<Comma, Quote>>, <<"3">>>>


\* The columns the table of kinds gives.
KindHeader(filename, first) ==
  CASE filename \in {"sources", "pages", "not_found"} -> <<"resource", "count">>
    [] filename = "countries" ->
         IF Defined(Get(first, "country_name"))
           THEN <<"resource", "country_name", "count">>
           ELSE <<"resource", "count">>
    [] filename = "bandwidth" -> <<"siteBandwidth", "accountBandwidth", "start", "end">>
    [] filename \in {"pageviews", "visitors"} -> <<"Date", "Count">>
    [] OTHER -> ObjectKeys(first)

\* The first item is of the shape its kind expects.
FitsKind(filename, first) ==
  CASE filename \in {"sources", "pages", "not_found", "countries"} ->
         Defined(Get(first, "resource"))
    [] filename = "bandwidth" -> Defined(Get(first, "siteBandwidth"))
    [] filename \in {"pageviews", "visitors"} -> first.t = "arr"
    [] OTHER -> FALSE

HeaderLine(headers) == JoinWith([h \in 1..Len(headers) |-> <<headers[h]>>], Comma)

\* Every row of the download lists its values in the order of `headers`.
RowsFollow(headers) ==
  LET rows == Opened(exporting.data).a
      first == rows[1]
  IN \A i \in 1..Len(rows) :
       LET line == downloads[1].lines[i + 1]
       IN IF first.t = "arr"
            THEN rows[i].t = "arr" => line = StringOf(rows[i])
            ELSE rows[i].t = "obj" =>
                   Fields(line) = [h \in 1..Len(headers) |->
                                     StringForm(Get(Shown(i), headers[h]))]

\* C17 as stated: the header and the field order follow from the kind alone.
C17_HeaderByKindOnly ==
  xpc = "returned" /\ downloads # <<>> =>
    LET first == FirstOf(Opened(exporting.data))
        headers == KindHeader(exporting.filename, first)
    IN /\ downloads[1].lines[1] = HeaderLine(headers)
       /\ RowsFollow(headers)

\* C17: the header and the field order follow from the kind and the first
\* item: the columns of the kind when the first item fits it (a `resource`
\* for the ranking kinds, a `siteBandwidth` for bandwidth, an array for
\* pageviews and visitors), the first record's own keys when it is an object
\* that does not, and no export when it is an array that does not; every row
\* lists its values in header order.
C17_HeaderByKindAndFirstItem ==
  xpc = "returned" =>
    LET first == FirstOf(Opened(exporting.data))
        headers == IF FitsKind(exporting.filename, first)
                     THEN KindHeader(exporting.filename, first)
                     ELSE ObjectKeys(first)
    IN IF downloads # <<>>
         THEN /\ downloads[1].lines[1] = HeaderLine(headers)
              /\ Len(downloads[1].lines) = Len(Opened(exporting.data).a) + 1
              /\ RowsFollow(headers)
         ELSE ~ExportFails => first.t = "arr" /\ ~FitsKind(exporting.filename, first)

C17_Witness ==
  /\ xpc = "returned"
  /\ exporting.filename = "sources"
  /\ exporting.data = Arr(<<Obj(<<Prop("name", Text(<<Quote, Comma>>)),
                                  Prop("n", Num(1))>>)>>)
  /\ downloads[1].lines[1] = <<"name", Comma, "n">>
  /\ downloads[1].lines[2] = <<Quote, Quote, Quote, Comma, Quote, Comma, "1">>

\* C18: in a bandwidth export a byte count that is 0 or undefined is shown
\* as "0 Bytes", for every record, and the humanizer of the exporter agrees
\* with the one of the page on 0 and on undefined.
C18_ZeroOrUndefinedAsZeroBytes ==
  BandwidthExport =>
    \A i \in 1..Len(Opened(exporting.data).a) :
      LET item == Opened(exporting.data).a[i]
          fields == Fields(downloads[1].lines[i + 1])
      IN item.t = "obj" =>
           \A c \in 1..2 :
             LET bytes == Get(item, KindHeader("bandwidth", item)[c])
             IN bytes \in {Num(0), Undefined} =>
                  /\ fields[c] = <<"0 Bytes">>
                  /\ FormatBytes(bytes) = PageFormatBytes(bytes)


(***************************************************************************)
(* The Analytics page: one query per metric, keyed by the time range       *)
(***************************************************************************)
\* The page renders with time range `range`: every useQuery observes the
\* query of its key and, when that query has no data and no fetch under
\* way, calls its queryFn, which holds the `range` of this render.
Observe(c, range) ==
  [k \in QueryKeys |->
     IF /\ \E m \in 1..Len(Metrics) : k = QueryKey(Metrics[m], range)
        /\ c[k].status = "none"
       THEN [status |-> "fetching", timeRange |-> range, data |-> NoData, late |-> FALSE]
       ELSE c[k]]

\* data of a useQuery: the data of the query of the key of this render.
Rendered(metric) == cache[QueryKey(metric, selected)].data

\* The page is opened.
Mount ==
  /\ ~mounted
  /\ mounted' = TRUE
  /\ cache' = Observe(cache, selected)
  /\ UNCHANGED <<selected, proxyVars, clientVars, exportVars>>

\* onClick={() => setTimeRange(option.value)} and the render that follows.
SetTimeRange(value) ==
  /\ mounted
  /\ value # selected
  /\ selected' = value
  /\ cache' = Observe(cache, value)
  /\ UNCHANGED <<mounted, proxyVars, clientVars, exportVars>>

SelectTimeRange ==
  \E o \in 1..Len(TimeRangeOptions) : SetTimeRange(TimeRangeOptions[o])

\* The promise of a queryFn resolves (the client never rejects): its
\* envelope, which is of the metric and the range the call was made with,
\* becomes the data of the query that made the call. `late` records that
\* the page had another range selected, and data to show for it, by then.
Settled(k) ==
  [status |-> "success", timeRange |-> cache[k].timeRange,
   data |-> [metric |-> k[1], timeRange |-> cache[k].timeRange],
   late |-> /\ cache[k].timeRange # selected
            /\ cache[QueryKey(k[1], selected)].status = "success"]

QuerySettles ==
  /\ mounted
  /\ \E k \in QueryKeys :
       /\ cache[k].status = "fetching"
       /\ cache' = [cache EXCEPT ![k] = Settled(k)]
  /\ UNCHANGED <<mounted, selected, proxyVars, clientVars, exportVars>>

UiNext == Mount \/ SelectTimeRange \/ QuerySettles

UiSpec == Deployed /\ [][UiNext]_vars

(***************************************************************************)
(* Properties of the page                                                  *)
(***************************************************************************)
\* C19 as stated: a response for a superseded time range that resolves
\* after the one of the selected range replaces the data shown.
C19_StaleResponseOverwrites ==
  [][\A k \in QueryKeys :
       (/\ cache[k].status = "fetching"
        /\ cache'[k].status = "success"
        /\ cache[k].timeRange # selected
        /\ Rendered(k[1]) # NoData)
       => Rendered(k[1])' = cache'[k].data]_vars

\* A fetch under way stays under way, for the range it was made with,
\* until it settles.
NotAborted ==
  \A k \in QueryKeys :
    cache[k].status = "fetching" =>
      /\ cache'[k].status \in {"fetching", "success"}
      /\ cache'[k].timeRange = cache[k].timeRange

\* C19: changing the time range while a request is in flight aborts
\* nothing; the response of the superseded range becomes the data of its
\* own query, and the data shown for a metric is that of the selected range
\* or absent.
C19_StaleResponseKeptApart ==
  /\ [](\A m \in 1..Len(Metrics) :
          Rendered(Metrics[m]) # NoData =>
            /\ Rendered(Metrics[m]).timeRange = selected
            /\ Rendered(Metrics[m]).metric = Metrics[m])
  /\ [][NotAborted]_vars

C19_Witness ==
  /\ selected = "7d"
  /\ cache[QueryKey("pageViews", "30d")].late
  /\ Rendered("pageViews") = [metric |-> "pageViews", timeRange |-> "7d"]

====
